---- MODULE Spec2Model ----
(***************************************************************************)
(* Model of the useLiveAPI hook (src/unnamed/part_000, lines 20-300): the  *)
(* voice session controller, its capture callback, the playback scheduler  *)
(* and the transcript log.                                                 *)
(*                                                                         *)
(* Every handler of the hook runs to completion on the single JavaScript   *)
(* thread, so each handler (and each segment of connect() between two      *)
(* awaits) is one action.  The browser and the remote service are the      *)
(* environment: audio contexts, microphone streams, worklet nodes and      *)
(* remote sessions are numbered by the connect() invocation that created   *)
(* them.  Time is counted in ticks of 100 ms.                              *)
(***************************************************************************)
EXTENDS Integers, Sequences, FiniteSets, TLC

VARIABLES
  isConnected,            \* useState, line 21
  isAITalking,            \* useState, line 22
  isUserTalking,          \* useState, line 23
  messages,               \* useState, line 24
  error,                  \* useState, line 25
  sessionRef,             \* line 27: 0 is null, else a session id
  isSessionActiveRef,     \* line 28
  isConnectingRef,        \* line 29
  audioContextRef,        \* line 30: 0 is null, else a context id
  streamRef,              \* line 31: 0 is null, else a stream id
  nextStartTimeRef,       \* line 32, in ticks of the output clock
  workletNodeRef,         \* line 33: 0 is null, else a node id
  userTalkingTimeoutRef,  \* line 34: 0, or the tick at which the pending timer is due
  pc,                     \* pc[i]: where invocation i of connect() is suspended
  nextId,                 \* number of accepted connect() invocations so far
  ctx,                    \* ctx[c]: "none" | "running" | "closed"
  ctxModule,              \* ctxModule[c]: the worklet module is registered on c
  ctxBirth,               \* ctxBirth[c]: tick at which context c was created
  stream,                 \* stream[s]: "none" | "live" | "stopped"
  node,                   \* node[n]: [ctx, handler, connected]
  sess,                   \* sess[s]: "none" | "connecting" | "open" | "closing" | "closed" | "failed"
  opened,                 \* opened[s]: the onopen callback of s has run
  clock,                  \* wall clock, in ticks
  timeline,               \* history: playback segments scheduled, with cuts at resets
  audioSent,              \* history: audioSent[s], an audio chunk was transmitted on s
  textSent,               \* history: textSent[s], the text payloads transmitted on s, in order
  sendFailed,             \* history: an audio send threw since the last accepted connect()
  lastLoud,               \* history: tick of the last frame over the threshold, -1 if none
  frameIn,                \* history: the frame handed to the capture callback last
  msgIn,                  \* history: the inbound message handed to onmessage last
  pcmOut,                 \* history: the Int16Array the capture callback built in its last run, empty if it returned early
  cancelled,              \* history: cancelled[i], disconnect() ran while invocation i awaited its session
  op                      \* history: the handler that ran last, and its outcome

hookVars == <<isConnected, isAITalking, isUserTalking, messages, error, sessionRef,
              isSessionActiveRef, isConnectingRef, audioContextRef, streamRef,
              nextStartTimeRef, workletNodeRef, userTalkingTimeoutRef>>
envVars == <<pc, nextId, ctx, ctxModule, ctxBirth, stream, node, sess, opened, clock>>
histVars == <<timeline, audioSent, textSent, sendFailed, lastLoud, frameIn, msgIn, pcmOut, cancelled, op>>
vars == <<hookVars, envVars, histVars>>

----------------------------------------------------------------------------
(* Bounds of the model. *)
MaxConnects == 2
PlayClock == 4
TalkClock == 6
MaxSegments == 3
MaxDuration == 2
LifeSegments == 1
LifeMessages == 1
TimedConnects == 1
LogConnects == 2
LogSegments == 1
MaxLog == 2
PcmSteps == 3
EndSegments == 2
EndClock == 4
ReplayConnects == 2
ReplaySegments == 2
ReplayClock == 2

(* 500 ms, the delay the specification gives the talk timer, in ticks. *)
HalfSecond == 5

(* 0.1 s, the guard interval the specification gives the completion test, in ticks. *)
TenthOfSecond == 1

(* Program constants, in model units (ticks of 100 ms, samples in 1/1000). *)
(* setTimeout(..., 500), line 122 *)
TalkTimeoutShort == HalfSecond - 2
TalkTimeout == 5
(* currentTime >= nextStartTimeRef.current - 0.1, line 179 *)
GuardIntervalLong == TenthOfSecond + 1
GuardInterval == 1
(* 0x7FFF, line 127 *)
PcmScale == 32767
(* the sample 1.0 of line 127, in thousandths *)
FullScale == 1000
(* rms > 0.01, line 119: 10 thousandths, squared *)
RmsThresholdSq == 100

Ids == 1..MaxConnects

NoError == "none"
ConnectionError == "Connection error. Please try again."
AccessError == "Could not access microphone or connect to API."

Max(a, b) == IF a >= b THEN a ELSE b
Min(a, b) == IF a <= b THEN a ELSE b

----------------------------------------------------------------------------
(* Pure helpers. *)

(* lines 114-119: rms = sqrt(sum / length) > 0.01, on samples in 1/1000;   *)
(* an empty frame divides by zero, gives NaN, and compares false.          *)
RECURSIVE SumSq(_)
SumSq(f) == IF f = <<>> THEN 0 ELSE Head(f) * Head(f) + SumSq(Tail(f))

IsTalking(f) == Len(f) > 0 /\ SumSq(f) > RmsThresholdSq * Len(f)

(* line 127: Math.max(-1, Math.min(1, x)) * 0x7FFF stored into an          *)
(* Int16Array element.  A sample is in 1/1000, so 1.0 is FullScale.  The    *)
(* store truncates the product toward zero and wraps it modulo 2^16.        *)
ToInt16(t) == ((t + 32768) % 65536) - 32768
Truncate(v, d) == IF v >= 0 THEN v \div d ELSE -((-v) \div d)
ToPcmUnclamped(x) == ToInt16(Truncate(x * PcmScale, FullScale))
ToPcm(x) == ToInt16(Truncate(Max(-FullScale, Min(FullScale, x)) * PcmScale, FullScale))

(* line 174: Math.max(currentTime, nextStartTimeRef.current) *)
StartTimeNow(now, next) == now
StartTimeQueued(now, next) == next
StartTime(now, next) == Max(now, next)

(* audioContext.currentTime of context c *)
CurrentTime(c) == clock - ctxBirth[c]

(* the reads of isSessionActiveRef.current in the capture callback *)
IsActiveAlways == TRUE
IsActive == isSessionActiveRef

(* line 57: the entry guard of connect() *)
ConnectGuardLatchOnly == isConnectingRef
ConnectGuard == isConnectingRef \/ isConnected

(* workletNodeRef.current.port.onmessage = null, guarded by the null test *)
Detach(nodeF, ref) ==
  IF ref # 0 THEN [nodeF EXCEPT ![ref].handler = FALSE] ELSE nodeF

(* session.close(): an open session starts closing; its close event follows *)
Close(sessF, s) ==
  IF sessF[s] \in {"connecting", "open"} THEN [sessF EXCEPT ![s] = "closing"] ELSE sessF

NoSeg == [kind |-> "cut", start |-> 0, end |-> 0, now |-> 0, ctx |-> 0, ended |-> FALSE]
Segs(tl) == {k \in 1..Len(tl) : tl[k].kind = "seg"}

(* an inbound message with no payload *)
NoMsg == [audio |-> 0, interrupted |-> FALSE, modelText |-> "", userText |-> ""]

(* the history records a cut wherever the code resets nextStartTimeRef to 0 *)
Cut(tl) == IF tl = <<>> \/ tl[Len(tl)].kind = "cut" THEN tl ELSE Append(tl, NoSeg)

----------------------------------------------------------------------------
(* Observable connection state of the controller. *)
Open == isConnected
Connecting == ~isConnected /\ isConnectingRef
Idle == ~isConnected /\ ~isConnectingRef

Pending(i) == pc[i] \in {"addModule", "getUserMedia", "awaitSession"}

----------------------------------------------------------------------------
Init ==
  /\ isConnected = FALSE /\ isAITalking = FALSE /\ isUserTalking = FALSE
  /\ messages = <<>> /\ error = NoError
  /\ sessionRef = 0 /\ isSessionActiveRef = FALSE /\ isConnectingRef = FALSE
  /\ audioContextRef = 0 /\ streamRef = 0 /\ nextStartTimeRef = 0
  /\ workletNodeRef = 0 /\ userTalkingTimeoutRef = 0
  /\ pc = [i \in Ids |-> "idle"] /\ nextId = 0
  /\ ctx = [i \in Ids |-> "none"] /\ ctxModule = [i \in Ids |-> FALSE]
  /\ ctxBirth = [i \in Ids |-> 0]
  /\ stream = [i \in Ids |-> "none"]
  /\ node = [i \in Ids |-> [ctx |-> 0, handler |-> FALSE, connected |-> FALSE]]
  /\ sess = [i \in Ids |-> "none"] /\ opened = [i \in Ids |-> FALSE]
  /\ clock = 0
  /\ timeline = <<>> /\ audioSent = [i \in Ids |-> FALSE] /\ textSent = [i \in Ids |-> <<>>]
  /\ sendFailed = FALSE /\ lastLoud = -1 /\ cancelled = [i \in Ids |-> FALSE]
  /\ frameIn = <<>> /\ msgIn = NoMsg /\ pcmOut = <<>>
  /\ op = "init"

----------------------------------------------------------------------------
(* stopAudio, lines 36-54.  nodeF, streamF and sRef are the values of node, *)
(* stream and streamRef when stopAudio is entered.                          *)
StopAudio(nodeF, streamF, sRef) ==
  /\ isSessionActiveRef' = FALSE
  /\ node' = IF workletNodeRef # 0
             THEN [nodeF EXCEPT ![workletNodeRef].handler = FALSE,
                                ![workletNodeRef].connected = FALSE]
             ELSE nodeF
  /\ workletNodeRef' = 0
  /\ ctx' = IF audioContextRef # 0 THEN [ctx EXCEPT ![audioContextRef] = "closed"] ELSE ctx
  /\ audioContextRef' = 0
  /\ stream' = IF sRef # 0 THEN [streamF EXCEPT ![sRef] = "stopped"] ELSE streamF
  /\ streamRef' = 0
  /\ isAITalking' = FALSE
  /\ isUserTalking' = FALSE
  /\ nextStartTimeRef' = 0
  /\ timeline' = Cut(timeline)

(* the catch block of connect(), lines 240-246, entered by invocation i *)
Catch(i, streamF, sRef) ==
  /\ error' = AccessError
  /\ isConnectingRef' = FALSE
  /\ StopAudio(node, streamF, sRef)
  /\ pc' = [pc EXCEPT ![i] = "done"]
  /\ op' = "connect:caught"
  /\ UNCHANGED <<isConnected, messages, sessionRef, userTalkingTimeoutRef,
                 nextId, ctxModule, ctxBirth, sess, opened, clock,
                 audioSent, textSent, sendFailed, lastLoud, cancelled, frameIn, msgIn, pcmOut>>

----------------------------------------------------------------------------
(* connect(), lines 56-83: the entry guard, the latches, the new audio      *)
(* context and the call of addModule, up to the first await.                *)
Connect(maxc) ==
  IF ConnectGuard
  THEN /\ op' = "connect:noop"
       /\ UNCHANGED <<hookVars, envVars, timeline, audioSent, textSent, sendFailed, lastLoud, cancelled, frameIn, msgIn, pcmOut>>
  ELSE /\ nextId < maxc
       /\ LET i == nextId + 1 IN
          /\ nextId' = i
          /\ isConnectingRef' = TRUE
          /\ isSessionActiveRef' = TRUE
          /\ error' = NoError
          /\ audioContextRef' = i
          /\ ctx' = [ctx EXCEPT ![i] = "running"]
          /\ ctxBirth' = [ctxBirth EXCEPT ![i] = clock]
          /\ pc' = [pc EXCEPT ![i] = "addModule"]
          /\ sendFailed' = FALSE
          /\ op' = "connect:accepted"
          /\ UNCHANGED <<isConnected, isAITalking, isUserTalking, messages, sessionRef,
                         streamRef, nextStartTimeRef, workletNodeRef,
                         userTalkingTimeoutRef, ctxModule, stream, node, sess, opened,
                         clock, timeline, audioSent, textSent, lastLoud, cancelled, frameIn, msgIn, pcmOut>>

(* line 83 resumes: addModule settled on the context it was called on; on   *)
(* success line 86 calls getUserMedia and connect() suspends again.         *)
ResumeAddModule(i, ok) ==
  /\ pc[i] = "addModule"
  /\ IF ok
     THEN /\ ctxModule' = [ctxModule EXCEPT ![i] = TRUE]
          /\ pc' = [pc EXCEPT ![i] = "getUserMedia"]
          /\ op' = "connect:moduleAdded"
          /\ UNCHANGED <<hookVars, nextId, ctx, ctxBirth, stream, node, sess, opened,
                         clock, timeline, audioSent, textSent, sendFailed, lastLoud, cancelled, frameIn, msgIn, pcmOut>>
     ELSE Catch(i, stream, streamRef)

(* lines 86-95 resume: the stream is stored, then the source and the        *)
(* worklet node are built on whatever audioContextRef holds NOW; a null     *)
(* context or a context without the registered processor throws.  On        *)
(* success ai.live.connect is called and connect() suspends at line 229.    *)
ResumeGetUserMedia(i, ok) ==
  /\ pc[i] = "getUserMedia"
  /\ IF ~ok
     THEN Catch(i, stream, streamRef)
     ELSE LET streamF == [stream EXCEPT ![i] = "live"] IN
          IF audioContextRef = 0 \/ ~ctxModule[audioContextRef]
          THEN Catch(i, streamF, i)
          ELSE /\ stream' = streamF
               /\ streamRef' = i
               /\ node' = [node EXCEPT ![i] = [ctx |-> audioContextRef,
                                               handler |-> FALSE, connected |-> TRUE]]
               /\ workletNodeRef' = i
               /\ sess' = [sess EXCEPT ![i] = "connecting"]
               /\ pc' = [pc EXCEPT ![i] = "awaitSession"]
               /\ op' = "connect:sessionRequested"
               /\ UNCHANGED <<isConnected, isAITalking, isUserTalking, messages, error,
                              sessionRef, isSessionActiveRef, isConnectingRef,
                              audioContextRef, nextStartTimeRef, userTalkingTimeoutRef,
                              nextId, ctx, ctxModule, ctxBirth, opened, clock,
                              timeline, audioSent, textSent, sendFailed, lastLoud, cancelled, frameIn, msgIn, pcmOut>>

(* line 232: the race check after the await *)
RaceCheck == ~isSessionActiveRef

(* lines 229-239 resume: the session promise resolved with session i.  The  *)
(* transport resolves the promise once the session is open, after it has    *)
(* run the onopen callback; other events may come between the two.          *)
ResumeSession(i) ==
  /\ pc[i] = "awaitSession"
  /\ opened[i]
  /\ pc' = [pc EXCEPT ![i] = "done"]
  /\ isConnectingRef' = FALSE
  /\ IF RaceCheck
     THEN /\ sess' = Close(sess, i)
          /\ op' = "connect:raceClosed"
          /\ UNCHANGED sessionRef
     ELSE /\ sessionRef' = i
          /\ op' = "connect:sessionStored"
          /\ UNCHANGED sess
  /\ UNCHANGED <<isConnected, isAITalking, isUserTalking, messages, error,
                 isSessionActiveRef, audioContextRef, streamRef, nextStartTimeRef,
                 workletNodeRef, userTalkingTimeoutRef, nextId, ctx, ctxModule,
                 ctxBirth, stream, node, opened, clock,
                 timeline, audioSent, textSent, sendFailed, lastLoud, cancelled, frameIn, msgIn, pcmOut>>

(* line 229: the session promise rejects (the remote open failed). *)
RejectSession(i) ==
  /\ pc[i] = "awaitSession"
  /\ sess[i] = "connecting"
  /\ error' = AccessError
  /\ isConnectingRef' = FALSE
  /\ StopAudio(node, stream, streamRef)
  /\ pc' = [pc EXCEPT ![i] = "done"]
  /\ sess' = [sess EXCEPT ![i] = "failed"]
  /\ op' = "connect:caught"
  /\ UNCHANGED <<isConnected, messages, sessionRef, userTalkingTimeoutRef,
                 nextId, ctxModule, ctxBirth, opened, clock,
                 audioSent, textSent, sendFailed, lastLoud, cancelled, frameIn, msgIn, pcmOut>>

----------------------------------------------------------------------------
(* onopen of session i, lines 98-104 and 147: attaches the capture callback *)
(* to the worklet node that invocation i created.                           *)
OnOpen(i) ==
  /\ sess[i] = "connecting"
  /\ opened' = [opened EXCEPT ![i] = TRUE]
  /\ sess' = [sess EXCEPT ![i] = "open"]
  /\ isConnected' = TRUE
  /\ isSessionActiveRef' = TRUE
  /\ isConnectingRef' = FALSE
  /\ error' = NoError
  /\ node' = [node EXCEPT ![i].handler = TRUE]
  /\ op' = "onopen"
  /\ UNCHANGED <<isAITalking, isUserTalking, messages, sessionRef, audioContextRef,
                 streamRef, nextStartTimeRef, workletNodeRef, userTalkingTimeoutRef,
                 pc, nextId, ctx, ctxModule, ctxBirth, stream, clock,
                 timeline, audioSent, textSent, sendFailed, lastLoud, cancelled, frameIn, msgIn, pcmOut>>

(* onclose of session i, lines 203-208 *)
OnClose(i) ==
  /\ sess[i] \in {"open", "closing"}
  /\ sess' = [sess EXCEPT ![i] = "closed"]
  /\ isConnected' = FALSE
  /\ isConnectingRef' = FALSE
  /\ StopAudio(node, stream, streamRef)
  /\ op' = "onclose"
  /\ UNCHANGED <<messages, error, sessionRef, userTalkingTimeoutRef,
                 pc, nextId, ctxModule, ctxBirth, opened, clock,
                 audioSent, textSent, sendFailed, lastLoud, cancelled, frameIn, msgIn, pcmOut>>

(* onerror of session i, lines 209-216; the transport's close event follows *)
OnError(i) ==
  /\ sess[i] \in {"connecting", "open"}
  /\ sess' = [sess EXCEPT ![i] = "closing"]
  /\ error' = ConnectionError
  /\ isConnected' = FALSE
  /\ isConnectingRef' = FALSE
  /\ StopAudio(node, stream, streamRef)
  /\ op' = "onerror"
  /\ UNCHANGED <<messages, sessionRef, userTalkingTimeoutRef,
                 pc, nextId, ctxModule, ctxBirth, opened, clock,
                 audioSent, textSent, sendFailed, lastLoud, cancelled, frameIn, msgIn, pcmOut>>

(* disconnect() with line 264 left out: the session handle stays stored *)
DisconnectKeepHandle ==
  /\ isConnectingRef' = FALSE
  /\ sess' = IF sessionRef # 0 THEN Close(sess, sessionRef) ELSE sess
  /\ sessionRef' = sessionRef
  /\ StopAudio(Detach(node, workletNodeRef), stream, streamRef)
  /\ isConnected' = FALSE
  /\ cancelled' = [i \in Ids |-> \/ cancelled[i]
                                 \/ pc[i] = "awaitSession" /\ sess[i] = "connecting"]
  /\ op' = IF op \in {"disconnect", "disconnect:again"}
           THEN "disconnect:again" ELSE "disconnect"
  /\ UNCHANGED <<messages, error, userTalkingTimeoutRef,
                 pc, nextId, ctxModule, ctxBirth, opened, clock,
                 audioSent, textSent, sendFailed, lastLoud, frameIn, msgIn, pcmOut>>

(* disconnect(), lines 249-268; the history tells a call that directly      *)
(* follows another call of disconnect() from the first.                     *)
Disconnect ==
  /\ isConnectingRef' = FALSE
  /\ sess' = IF sessionRef # 0 THEN Close(sess, sessionRef) ELSE sess
  /\ sessionRef' = 0
  /\ StopAudio(Detach(node, workletNodeRef), stream, streamRef)
  /\ isConnected' = FALSE
  /\ cancelled' = [i \in Ids |-> \/ cancelled[i]
                                 \/ pc[i] = "awaitSession" /\ sess[i] = "connecting"]
  /\ op' = IF op \in {"disconnect", "disconnect:again"}
           THEN "disconnect:again" ELSE "disconnect"
  /\ UNCHANGED <<messages, error, userTalkingTimeoutRef,
                 pc, nextId, ctxModule, ctxBirth, opened, clock,
                 audioSent, textSent, sendFailed, lastLoud, frameIn, msgIn, pcmOut>>

----------------------------------------------------------------------------
(* The capture callback, lines 104-147, run for one frame f posted by node  *)
(* n.  A worklet posts frames while its context runs; throws says whether   *)
(* sendRealtimeInput throws on this call.                                   *)
Frame(n, f, throws) ==
  /\ node[n].ctx # 0
  /\ node[n].handler
  /\ ctx[node[n].ctx] = "running"
  /\ frameIn' = f
  /\ LET session == sessionRef IN
     IF session = 0 \/ ~IsActive
     THEN /\ op' = "frame:dropped"
          /\ pcmOut' = <<>>
          /\ UNCHANGED <<hookVars, envVars, timeline, audioSent, textSent, sendFailed,
                         lastLoud, cancelled, msgIn>>
     ELSE /\ IF IsTalking(f)
             THEN /\ isUserTalking' = TRUE
                  /\ userTalkingTimeoutRef' = clock + TalkTimeout
                  /\ lastLoud' = clock
             ELSE UNCHANGED <<isUserTalking, userTalkingTimeoutRef, lastLoud>>
          /\ pcmOut' = [k \in 1..Len(f) |-> ToPcm(f[k])]
          /\ IF ~IsActive
             THEN /\ op' = "frame:skipped"
                  /\ UNCHANGED <<isSessionActiveRef, node, audioSent, sendFailed>>
             ELSE IF throws
             THEN /\ isSessionActiveRef' = FALSE
                  /\ node' = Detach(node, workletNodeRef)
                  /\ sendFailed' = TRUE
                  /\ op' = "frame:sendThrew"
                  /\ UNCHANGED audioSent
             ELSE /\ audioSent' = [audioSent EXCEPT ![session] = TRUE]
                  /\ op' = "frame:sent"
                  /\ UNCHANGED <<isSessionActiveRef, node, sendFailed>>
          /\ UNCHANGED <<isConnected, isAITalking, messages, error, sessionRef,
                         isConnectingRef, audioContextRef, streamRef, nextStartTimeRef,
                         workletNodeRef, pc, nextId, ctx, ctxModule, ctxBirth, stream,
                         sess, opened, clock, timeline, textSent, cancelled, msgIn>>

(* line 150: the activity guard of onmessage *)
MessageGuardNever == FALSE
MessageGuard == ~isSessionActiveRef

(* Transcripts with a fragment dropped when it repeats the last message *)
TranscriptsDeduplicated(m) ==
  (IF m.modelText # "" /\ (messages = <<>> \/ messages[Len(messages)].text # m.modelText)
   THEN <<[role |-> "model", text |-> m.modelText]>> ELSE <<>>)
  \o (IF m.userText # "" THEN <<[role |-> "user", text |-> m.userText]>> ELSE <<>>)

(* The texts a non-empty transcription field appends, lines 193-201. *)
Transcripts(m) ==
  (IF m.modelText # "" THEN <<[role |-> "model", text |-> m.modelText]>> ELSE <<>>)
  \o (IF m.userText # "" THEN <<[role |-> "user", text |-> m.userText]>> ELSE <<>>)

(* onmessage of session i, lines 149-202, for one inbound message m:        *)
(* m.audio is the duration of the audio payload in ticks, 0 for none.       *)
OnMessage(i, m, maxSegs, maxMsgs) ==
  /\ sess[i] = "open"
  /\ Len(messages) + Len(Transcripts(m)) <= maxMsgs
  /\ m.audio > 0 => Cardinality(Segs(timeline)) < maxSegs
  /\ msgIn' = m
  /\ IF MessageGuard
     THEN /\ op' = IF m.interrupted THEN "onmessage:ignoredInterrupted"
                                     ELSE "onmessage:ignored"
          /\ UNCHANGED <<hookVars, envVars, timeline, audioSent, textSent, sendFailed,
                         lastLoud, cancelled, frameIn, pcmOut>>
     ELSE LET hasAudio == m.audio > 0
              sched == hasAudio /\ audioContextRef # 0
              now == CurrentTime(audioContextRef)
              startTime == StartTime(now, nextStartTimeRef)
              seg == [kind |-> "seg", start |-> startTime, end |-> startTime + m.audio,
                      now |-> now, ctx |-> audioContextRef,
                      ended |-> FALSE]
              tl1 == IF sched THEN Append(timeline, seg) ELSE timeline
              next1 == IF sched THEN startTime + m.audio ELSE nextStartTimeRef
              talk1 == IF hasAudio THEN TRUE ELSE isAITalking
          IN /\ timeline' = IF m.interrupted THEN Cut(tl1) ELSE tl1
             /\ nextStartTimeRef' = IF m.interrupted THEN 0 ELSE next1
             /\ isAITalking' = IF m.interrupted THEN FALSE ELSE talk1
             /\ messages' = messages \o Transcripts(m)
             /\ op' = IF m.interrupted THEN "onmessage:interrupted" ELSE "onmessage"
             /\ UNCHANGED <<isConnected, isUserTalking, error, sessionRef,
                            isSessionActiveRef, isConnectingRef, audioContextRef,
                            streamRef, workletNodeRef, userTalkingTimeoutRef, envVars,
                            audioSent, textSent, sendFailed, lastLoud, cancelled, frameIn, pcmOut>>

(* source.onended of segment k, lines 178-182: fires once the segment has   *)
(* played to its end on its context.                                        *)
OnEnded(k) ==
  /\ k \in Segs(timeline)
  /\ ~timeline[k].ended
  /\ ctx[timeline[k].ctx] = "running"
  /\ CurrentTime(timeline[k].ctx) >= timeline[k].end
  /\ timeline' = [timeline EXCEPT ![k].ended = TRUE]
  /\ isAITalking' = IF /\ audioContextRef # 0
                       /\ CurrentTime(audioContextRef) >= nextStartTimeRef - GuardInterval
                    THEN FALSE ELSE isAITalking
  /\ op' = "onended"
  /\ UNCHANGED <<isConnected, isUserTalking, messages, error, sessionRef,
                 isSessionActiveRef, isConnectingRef, audioContextRef, streamRef,
                 nextStartTimeRef, workletNodeRef, userTalkingTimeoutRef, envVars,
                 audioSent, textSent, sendFailed, lastLoud, cancelled, frameIn, msgIn, pcmOut>>

(* line 271: the guard of sendTextMessage *)
TextGuardNoFlag == sessionRef # 0 /\ isConnected
TextGuard == sessionRef # 0 /\ isConnected /\ isSessionActiveRef

(* sendTextMessage(text), lines 270-281 *)
SendTextMessage(text, throws, maxMsgs) ==
  /\ Len(messages) < maxMsgs
  /\ IF TextGuard
     THEN IF throws
          THEN /\ op' = "text:threw"
               /\ UNCHANGED <<messages, textSent>>
          ELSE /\ textSent' = [textSent EXCEPT ![sessionRef] = Append(@, text)]
               /\ messages' = Append(messages, [role |-> "user", text |-> text])
               /\ op' = "text:sent"
     ELSE /\ op' = "text:ignored"
          /\ UNCHANGED <<messages, textSent>>
  /\ UNCHANGED <<isConnected, isAITalking, isUserTalking, error, sessionRef,
                 isSessionActiveRef, isConnectingRef, audioContextRef, streamRef,
                 nextStartTimeRef, workletNodeRef, userTalkingTimeoutRef, envVars,
                 timeline, audioSent, sendFailed, lastLoud, cancelled, frameIn, msgIn, pcmOut>>

(* The timer of line 122 fires: never before its delay has elapsed. *)
TalkTimeoutFires ==
  /\ userTalkingTimeoutRef # 0
  /\ clock >= userTalkingTimeoutRef
  /\ isUserTalking' = FALSE
  /\ userTalkingTimeoutRef' = 0
  /\ op' = "timer"
  /\ UNCHANGED <<isConnected, isAITalking, messages, error, sessionRef,
                 isSessionActiveRef, isConnectingRef, audioContextRef, streamRef,
                 nextStartTimeRef, workletNodeRef, envVars,
                 timeline, audioSent, textSent, sendFailed, lastLoud, cancelled, frameIn, msgIn, pcmOut>>

(* Time passes. *)
Tick(maxClock) ==
  /\ clock < maxClock
  /\ clock' = clock + 1
  /\ op' = "tick"
  /\ UNCHANGED <<hookVars, pc, nextId, ctx, ctxModule, ctxBirth, stream, node, sess,
                 opened, timeline, audioSent, textSent, sendFailed, lastLoud, cancelled, frameIn, msgIn, pcmOut>>

----------------------------------------------------------------------------
(* Inputs. *)
QuietFrame == <<0, 5>>
EdgeFrame == <<10, -10>>
LoudFrame == <<20, -20>>
Frames == {QuietFrame, EdgeFrame, LoudFrame}

Msg(a, int, mt, ut) == [audio |-> a, interrupted |-> int, modelText |-> mt, userText |-> ut]
LifeMsgs == {Msg(1, FALSE, "", "")}

(* The session lifecycle: connect(), disconnect(), the awaits of connect()  *)
(* and the callbacks of the remote session, at one instant of time.         *)
Next ==
  \/ Connect(MaxConnects)
  \/ \E i \in Ids, ok \in BOOLEAN : ResumeAddModule(i, ok)
  \/ \E i \in Ids, ok \in BOOLEAN : ResumeGetUserMedia(i, ok)
  \/ \E i \in Ids : ResumeSession(i)
  \/ \E i \in Ids : RejectSession(i)
  \/ \E i \in Ids : OnOpen(i)
  \/ \E i \in Ids : OnClose(i)
  \/ \E i \in Ids : OnError(i)
  \/ \E i \in Ids, m \in LifeMsgs : OnMessage(i, m, LifeSegments, LifeMessages)
  \/ \E n \in Ids, throws \in BOOLEAN : Frame(n, LoudFrame, throws)
  \/ \E throws \in BOOLEAN : SendTextMessage("hello", throws, LifeMessages)
  \/ Disconnect

Spec == Init /\ [][Next]_vars

(* Playback over time: one session lifecycle at a time with the output      *)
(* clock running, inbound audio and interruptions, failing sends and        *)
(* teardown.                                                                *)
PlayMsgs ==
  {Msg(d, FALSE, "", "") : d \in 1..MaxDuration}
    \cup {Msg(0, TRUE, "", ""), Msg(1, TRUE, "", "")}

NextPlay ==
  \/ Connect(TimedConnects)
  \/ \E i \in Ids : ResumeAddModule(i, TRUE)
  \/ \E i \in Ids : ResumeGetUserMedia(i, TRUE)
  \/ \E i \in Ids : OnOpen(i)
  \/ \E i \in Ids : ResumeSession(i)
  \/ \E i \in Ids : OnClose(i)
  \/ \E i \in Ids, m \in PlayMsgs : OnMessage(i, m, MaxSegments, 0)
  \/ \E n \in Ids : Frame(n, QuietFrame, TRUE)
  \/ Tick(PlayClock)
  \/ Disconnect

SpecPlay == Init /\ [][NextPlay]_vars

(* Talk detection over time: captured frames, the 500 ms timer and          *)
(* teardown, with the wall clock running.                                   *)
NextTalk ==
  \/ Connect(TimedConnects)
  \/ \E i \in Ids : ResumeAddModule(i, TRUE)
  \/ \E i \in Ids : ResumeGetUserMedia(i, TRUE)
  \/ \E i \in Ids : OnOpen(i)
  \/ \E i \in Ids : ResumeSession(i)
  \/ \E i \in Ids : OnClose(i)
  \/ \E n \in Ids, f \in Frames : Frame(n, f, FALSE)
  \/ TalkTimeoutFires
  \/ Tick(TalkClock)
  \/ Disconnect

SpecTalk == Init /\ [][NextTalk]_vars

(* The transcript log over the session lifecycle: inbound transcriptions,   *)
(* audio and interruptions, typed text, failing sends, teardown and         *)
(* reconnection, at one instant of time.                                    *)
LogMsgs ==
  {Msg(1, FALSE, "", ""), Msg(0, TRUE, "", "b"), Msg(0, FALSE, "a", ""),
   Msg(0, FALSE, "a", "b")}

NextLog ==
  \/ Connect(LogConnects)
  \/ \E i \in Ids : ResumeAddModule(i, TRUE)
  \/ \E i \in Ids : ResumeGetUserMedia(i, TRUE)
  \/ \E i \in Ids : OnOpen(i)
  \/ \E i \in Ids : ResumeSession(i)
  \/ \E i \in Ids : OnClose(i)
  \/ \E i \in Ids : OnError(i)
  \/ \E i \in Ids, m \in LogMsgs : OnMessage(i, m, LogSegments, MaxLog)
  \/ \E n \in Ids : Frame(n, QuietFrame, TRUE)
  \/ \E throws \in BOOLEAN : SendTextMessage("a", throws, MaxLog)
  \/ Disconnect

SpecLog == Init /\ [][NextLog]_vars

(* Completion of playback: segments are scheduled and interrupted, the     *)
(* output clock runs, and each segment's onended fires once it has played.  *)
EndMsgs == {Msg(d, FALSE, "", "") : d \in 1..MaxDuration} \cup {Msg(0, TRUE, "", "")}

NextEnded ==
  \/ Connect(TimedConnects)
  \/ \E i \in Ids : ResumeAddModule(i, TRUE)
  \/ \E i \in Ids : ResumeGetUserMedia(i, TRUE)
  \/ \E i \in Ids : OnOpen(i)
  \/ \E i \in Ids : ResumeSession(i)
  \/ \E i \in Ids, m \in EndMsgs : OnMessage(i, m, EndSegments, 0)
  \/ \E k \in 1..EndSegments + EndSegments : OnEnded(k)
  \/ Tick(EndClock)
  \/ Disconnect

SpecEnded == Init /\ [][NextEnded]_vars

(* Playback across reconnection: two connect() invocations with the clock  *)
(* running, so that a later audio context starts its own clock at zero.     *)
ReplayMsgs == {Msg(1, FALSE, "", ""), Msg(0, TRUE, "", "")}

NextReplay ==
  \/ Connect(ReplayConnects)
  \/ \E i \in Ids : ResumeAddModule(i, TRUE)
  \/ \E i \in Ids : ResumeGetUserMedia(i, TRUE)
  \/ \E i \in Ids : OnOpen(i)
  \/ \E i \in Ids : ResumeSession(i)
  \/ \E i \in Ids : OnClose(i)
  \/ \E i \in Ids, m \in ReplayMsgs : OnMessage(i, m, ReplaySegments, 0)
  \/ Tick(ReplayClock)
  \/ Disconnect

SpecReplay == Init /\ [][NextReplay]_vars

(* PCM conversion: the capture callback on frames of one and two samples    *)
(* that lie at, in and beyond the clipping boundaries -1.0 and 1.0, in      *)
(* steps of 0.5.                                                            *)
PcmSamples == {k * (FullScale \div 2) : k \in -PcmSteps..PcmSteps}
PcmFrames == {<<x>> : x \in PcmSamples} \cup {<<x, y>> : x, y \in PcmSamples}

NextPcm ==
  \/ Connect(TimedConnects)
  \/ \E i \in Ids : ResumeAddModule(i, TRUE)
  \/ \E i \in Ids : ResumeGetUserMedia(i, TRUE)
  \/ \E i \in Ids : OnOpen(i)
  \/ \E i \in Ids : ResumeSession(i)
  \/ \E n \in Ids, f \in PcmFrames : Frame(n, f, FALSE)
  \/ Disconnect

SpecPcm == Init /\ [][NextPcm]_vars

----------------------------------------------------------------------------
(* Properties of the session lifecycle, checked under Spec.                 *)

DevicesReleased ==
  /\ audioContextRef = 0 /\ streamRef = 0 /\ workletNodeRef = 0
  /\ \A c \in Ids : ctx[c] # "running"
  /\ \A s \in Ids : stream[s] # "live"
NoCallbackAttached == \A n \in Ids : ~node[n].handler

(* C1: if disconnect() runs while invocation i of connect() still awaits    *)
(* its session, then whatever the order of the session's onopen and the     *)
(* resumption of connect(), no audio chunk is ever sent on session i, the   *)
(* handle of session i is never stored, the controller never reports Open   *)
(* on its account, and once connect() has resumed session i is closed and   *)
(* the controller is Idle with activeFlag false and no session handle.      *)
C1_DisconnectWhileConnecting ==
  \A i \in Ids :
    cancelled[i] =>
      /\ ~audioSent[i]
      /\ sessionRef # i
      /\ nextId = i => ~isConnected
      /\ pc[i] = "done" => sess[i] # "open"
      /\ (pc[i] = "done" /\ nextId = i) =>
            (Idle /\ ~isSessionActiveRef /\ sessionRef = 0)

(* C2: at most one remote session that was opened and not yet closed        *)
(* exists at any time.                                                      *)
C2_AtMostOneOpenSession == Cardinality({i \in Ids : sess[i] = "open"}) <= 1

(* C3: the controller is always in exactly one of Idle, Connecting and      *)
(* Open, and whenever it is Idle with no connect() continuation pending,    *)
(* every audio device is released and no capture callback is attached.      *)
C3_IdleHoldsNothing ==
  /\ Cardinality({x \in {"Idle", "Connecting", "Open"} :
                    \/ x = "Idle" /\ Idle
                    \/ x = "Connecting" /\ Connecting
                    \/ x = "Open" /\ Open}) = 1
  /\ (Idle /\ \A i \in Ids : ~Pending(i)) => (DevicesReleased /\ NoCallbackAttached)

(* C4: when an outbound audio send throws while the session is Open, the    *)
(* resulting state has both talk flags false and lastError set, and no      *)
(* audio or text is sent again before a new connect() is accepted.          *)
C4_SendFailureTearsDown ==
  /\ [][(op' = "frame:sendThrew" /\ isConnected) =>
          (~isUserTalking' /\ ~isAITalking' /\ error' # NoError)]_vars
  /\ [][sendFailed => op' \notin {"frame:sent", "text:sent"}]_vars

(* C8: the capture callback transmits an audio chunk only while activeFlag  *)
(* is true: no step transmits a chunk from a state in which disconnect(),   *)
(* onclose, onerror or a send failure has left the flag false.              *)
C8_SendOnlyWhileActive ==
  [][op' = "frame:sent" => (isSessionActiveRef /\ sessionRef # 0)]_vars

(* C8 witness: a frame reached the callback after the flag was cleared and  *)
(* a session handle was still stored, and it was dropped.                   *)
C8_Witness == op = "frame:dropped" /\ ~isSessionActiveRef /\ sessionRef # 0

(* C9: connect() called while the controller is Connecting or Open changes  *)
(* nothing: no controller state, no device, no session.                     *)
C9_ConnectNoopWhenBusy ==
  [][((Connecting \/ Open) /\ op' \in {"connect:noop", "connect:accepted"}) =>
        UNCHANGED <<hookVars, envVars, timeline, audioSent, textSent, sendFailed,
                    lastLoud, cancelled, frameIn, msgIn, pcmOut>>]_vars

(* C9 witness: connect() was called and rejected while Open with devices    *)
(* held and a session stored.                                               *)
C9_Witness == op = "connect:noop" /\ Open /\ sessionRef # 0 /\ audioContextRef # 0

(* C10: onclose and onerror leave the controller as disconnect() would:     *)
(* activeFlag false, capture callback detached, session handle cleared,     *)
(* devices released, timeline zero, talk flags false, Idle; onerror sets    *)
(* lastError and onclose leaves it unchanged.                               *)
C10_RemoteTeardownLikeDisconnect ==
  [][op' \in {"onclose", "onerror"} =>
        /\ ~isSessionActiveRef'
        /\ (workletNodeRef # 0 => ~node'[workletNodeRef].handler)
        /\ sessionRef' = 0
        /\ audioContextRef' = 0 /\ streamRef' = 0 /\ workletNodeRef' = 0
        /\ nextStartTimeRef' = 0
        /\ ~isAITalking' /\ ~isUserTalking'
        /\ Idle'
        /\ (op' = "onerror" => error' = ConnectionError)
        /\ (op' = "onclose" => error' = error)]_vars

----------------------------------------------------------------------------
(* Properties of the playback timeline, checked under SpecPlay.             *)

Adjacent(k) == k > 1 /\ timeline[k].kind = "seg" /\ timeline[k - 1].kind = "seg"
Run(j, k) == j < k /\ \A x \in j..k : timeline[x].kind = "seg"

(* C5, as stated: of chunks scheduled with no interruption between them,    *)
(* each segment after the first starts at exactly the end of the segment    *)
(* before it, and no two segments overlap.                                  *)
C5_StartsAtPreviousEnd ==
  /\ \A k \in 1..Len(timeline) :
        Adjacent(k) => timeline[k].start = timeline[k - 1].end
  /\ \A j, k \in 1..Len(timeline) : Run(j, k) => timeline[j].end <= timeline[k].start

(* C5, amended: of chunks scheduled on one context with no interruption     *)
(* and no teardown between them, each segment after the first starts at     *)
(* the later of the output clock's reading when it is scheduled and the     *)
(* end of the segment before it: at exactly that end when the clock has     *)
(* not passed it, never before it; and no two segments overlap.             *)
C5_StartsAtMaxOfClockAndPreviousEnd ==
  /\ \A k \in 1..Len(timeline) :
        Adjacent(k) =>
          /\ timeline[k].ctx = timeline[k - 1].ctx
          /\ timeline[k].start >= timeline[k - 1].end
          /\ timeline[k].start >= timeline[k].now
          /\ timeline[k].start \in {timeline[k].now, timeline[k - 1].end}
          /\ timeline[k].end > timeline[k].start
  /\ \A j, k \in 1..Len(timeline) : Run(j, k) => timeline[j].end <= timeline[k].start

(* C5 witness: three chunks in a row, the second queued behind the first    *)
(* while it still plays, the third arriving after the clock has passed the  *)
(* end of the second.                                                       *)
C5_Witness ==
  \E k \in 3..Len(timeline) :
    /\ Adjacent(k) /\ Adjacent(k - 1)
    /\ timeline[k - 1].now < timeline[k - 2].end
    /\ timeline[k - 1].start = timeline[k - 2].end
    /\ timeline[k].now > timeline[k - 1].end
    /\ timeline[k].start = timeline[k].now

(* C6: an inbound message with the interrupted flag, received after one or  *)
(* more segments were scheduled, sets nextFreeTime to zero and              *)
(* assistantTalking to false; the segment scheduled next starts at exactly  *)
(* the output clock's current time.                                         *)
C6_InterruptionResetsTimeline ==
  /\ [][(/\ op' \in {"onmessage:interrupted", "onmessage:ignoredInterrupted"}
         /\ Segs(timeline) # {}) =>
          (nextStartTimeRef' = 0 /\ ~isAITalking')]_vars
  /\ [](\A k \in 2..Len(timeline) :
          (timeline[k].kind = "seg" /\ timeline[k - 1].kind = "cut") =>
             timeline[k].start = timeline[k].now)

(* C17: no two playback segments scheduled on the same output context      *)
(* overlap in time, whatever chunks, clock advances and interruptions come  *)
(* between them: a segment scheduled later starts at or after the end of    *)
(* every segment scheduled earlier.                                         *)
C17_NoOverlapAcrossInterruptions ==
  \A j, k \in Segs(timeline) :
    (j < k /\ timeline[j].ctx = timeline[k].ctx) => timeline[j].end <= timeline[k].start

----------------------------------------------------------------------------
(* Properties of playback completion, checked under SpecEnded.              *)

(* C18: assistantTalking is true after a message that schedules a segment;  *)
(* a segment's completion callback sets it false only if the output clock   *)
(* has reached nextFreeTime minus 0.1 s, so when a segment completes while  *)
(* a later segment ending more than 0.1 s in the future is queued,          *)
(* assistantTalking stays true.                                             *)
C18_TalkingUntilLastSegmentEnds ==
  /\ [][(op' = "onmessage" /\ Cardinality(Segs(timeline')) > Cardinality(Segs(timeline))) =>
          isAITalking']_vars
  /\ [][(op' = "onended" /\ isAITalking /\ ~isAITalking') =>
          /\ audioContextRef # 0
          /\ CurrentTime(audioContextRef) >= nextStartTimeRef - TenthOfSecond]_vars
  /\ [][(/\ op' = "onended" /\ isAITalking /\ audioContextRef # 0
         /\ CurrentTime(audioContextRef) < nextStartTimeRef - TenthOfSecond) =>
          isAITalking']_vars

(* C18 witness: the first of two queued segments completed while the        *)
(* second still had more than 0.1 s to play, and assistantTalking stayed    *)
(* true.                                                                    *)
C18_Witness ==
  /\ op = "onended" /\ isAITalking /\ audioContextRef # 0
  /\ Len(timeline) = 2 /\ timeline[1].kind = "seg" /\ timeline[2].kind = "seg"
  /\ timeline[1].ended /\ ~timeline[2].ended
  /\ timeline[2].end = nextStartTimeRef
  /\ CurrentTime(audioContextRef) < nextStartTimeRef - TenthOfSecond

----------------------------------------------------------------------------
(* Properties of playback across reconnection, checked under SpecReplay.    *)

(* C20: every playback segment is scheduled with a start time greater than  *)
(* or equal to the reading of the output clock of its context at the moment *)
(* of scheduling, also right after an interruption or a reconnection has    *)
(* reset nextFreeTime to zero.                                              *)
C20_StartNotBeforeClock ==
  \A k \in Segs(timeline) :
    /\ timeline[k].now >= 0
    /\ timeline[k].start >= timeline[k].now

(* C20 witness: a segment was scheduled on the first context; after a       *)
(* teardown and a reconnection, with the clock of the second context past   *)
(* zero, a segment was scheduled on the second context at the clock's       *)
(* reading.                                                                 *)
C20_Witness ==
  /\ op = "onmessage" /\ Len(timeline) = 3
  /\ timeline[1].kind = "seg" /\ timeline[1].ctx = 1
  /\ timeline[2].kind = "cut"
  /\ timeline[3].kind = "seg" /\ timeline[3].ctx = 2
  /\ timeline[3].now > 0 /\ timeline[3].start = timeline[3].now

----------------------------------------------------------------------------
(* Properties of talk detection, checked under SpecTalk.                    *)

OverThreshold(f) == Len(f) > 0 /\ SumSq(f) > 100 * Len(f)
Processed == {"frame:sent", "frame:sendThrew", "frame:skipped"}
Teardown == {"disconnect", "disconnect:again", "onclose", "onerror", "connect:caught"}

(* C7, as stated: userTalking becomes false only once at least 500 ms have  *)
(* elapsed since the last frame over the threshold, never earlier.          *)
C7_FalseOnlyAfterHalfSecond ==
  [][(isUserTalking /\ ~isUserTalking') =>
        (lastLoud >= 0 /\ clock >= lastLoud + HalfSecond)]_vars

(* C7, amended: a frame over the threshold that the capture callback        *)
(* processes (a session handle is stored and activeFlag is true) sets       *)
(* userTalking true and restarts the single 500 ms timer; a frame at or     *)
(* under the threshold leaves both alone; userTalking then becomes false    *)
(* only when that timer fires, at least 500 ms after the last such frame,   *)
(* or earlier when a teardown (disconnect, onclose, onerror, a failed       *)
(* connect) runs stopAudio.                                                 *)
C7_FalseAfterHalfSecondOrTeardown ==
  /\ [][(op' \in Processed /\ OverThreshold(frameIn')) =>
          /\ isUserTalking'
          /\ lastLoud' = clock
          /\ userTalkingTimeoutRef' = clock + HalfSecond]_vars
  /\ [][(op' \in Processed /\ ~OverThreshold(frameIn')) =>
          UNCHANGED <<isUserTalking, userTalkingTimeoutRef, lastLoud>>]_vars
  /\ [][(isUserTalking /\ ~isUserTalking') =>
          \/ op' = "timer" /\ lastLoud >= 0 /\ clock >= lastLoud + HalfSecond
          \/ op' \in Teardown]_vars

(* C7 witness: the timer fired and cleared userTalking half a second or     *)
(* more after a frame over the threshold that had restarted the window.     *)
C7_Witness ==
  /\ op = "timer" /\ ~isUserTalking
  /\ lastLoud > 0 /\ clock >= lastLoud + HalfSecond

----------------------------------------------------------------------------
(* Properties of failure handling and of the log, checked under Spec.       *)

(* C11: when device acquisition or the remote session open fails during    *)
(* connect(), the catch block leaves lastError set, the controller Idle     *)
(* with activeFlag false, every device released and no session handle       *)
(* retained.                                                                *)
C11_ConnectFailureCleansUp ==
  [][op' = "connect:caught" =>
        /\ error' = AccessError
        /\ Idle' /\ ~isSessionActiveRef'
        /\ DevicesReleased'
        /\ sessionRef' = 0]_vars

(* C12: disconnect() is idempotent: a call that directly follows another   *)
(* call of disconnect() finds no session handle to close and no device to   *)
(* release, and changes nothing.                                            *)
C12_DisconnectIdempotent ==
  [][op' = "disconnect:again" =>
        /\ sessionRef = 0 /\ workletNodeRef = 0
        /\ audioContextRef = 0 /\ streamRef = 0
        /\ UNCHANGED <<hookVars, envVars, timeline, audioSent, textSent, sendFailed,
                       lastLoud, cancelled, frameIn, msgIn, pcmOut>>]_vars

(* C12 witness: disconnect() ran twice in a row on a session that had been  *)
(* in use; the first call closed the session and released the devices.     *)
C12_Witness ==
  /\ op = "disconnect:again" /\ nextId = 1 /\ error = NoError
  /\ audioSent[1] /\ sess[1] = "closing"
  /\ ctx[1] = "closed" /\ stream[1] = "stopped" /\ ~node[1].handler

DevicesHeld ==
  /\ audioContextRef # 0 /\ ctx[audioContextRef] = "running"
  /\ streamRef # 0 /\ stream[streamRef] = "live"
  /\ workletNodeRef # 0 /\ node[workletNodeRef].connected

(* C21: whenever the controller reports Open, activeFlag is true, a session *)
(* handle is stored, and the audio context, the microphone stream and the   *)
(* worklet node are held and live.                                          *)
C21_OpenMeansActiveAndHeld ==
  isConnected => (isSessionActiveRef /\ sessionRef # 0 /\ DevicesHeld)

(* C22: every outbound audio chunk is sent on the session opened by the    *)
(* most recent accepted connect(), and never on a session that is already   *)
(* closed, whatever the order of frame arrival, onopen and the resumption   *)
(* of connect().                                                            *)
C22_AudioOnLatestSession ==
  [][op' \in {"frame:sent", "frame:sendThrew"} =>
        (sessionRef = nextId /\ sess[sessionRef] = "open")]_vars

(* a connect() whose getUserMedia succeeded threw on the lines after it:   *)
(* the stream was acquired and released within the same step                *)
AcquiredThenThrew ==
  \E i \in Ids : /\ pc[i] = "getUserMedia" /\ pc'[i] = "done"
                 /\ stream[i] = "none" /\ stream'[i] = "stopped"

(* C23: lastError is set only by a real failure: a step sets it only as     *)
(* onerror or as the catch of a connect() whose device acquisition or       *)
(* session open failed, so calling disconnect() at a suspension point of a  *)
(* pending connect() never sets it; and every accepted connect() clears it. *)
C23_ErrorOnlyOnRealFailure ==
  /\ [][(error' # NoError /\ (error' # error \/ op' = "connect:caught")) =>
          (op' \in {"onerror", "connect:caught"} /\ ~AcquiredThenThrew)]_vars
  /\ [][op' = "connect:accepted" => error' = NoError]_vars

----------------------------------------------------------------------------
(* Properties of inbound messages and of the log, checked under SpecLog.    *)

OnMessageOps ==
  {"onmessage", "onmessage:interrupted", "onmessage:ignored", "onmessage:ignoredInterrupted"}

(* C13: an inbound message that arrives while activeFlag is false is        *)
(* ignored entirely: no segment is scheduled, and nextFreeTime,             *)
(* assistantTalking and the message log are left unchanged.                 *)
C13_InactiveMessageIgnored ==
  [][(op' \in OnMessageOps /\ ~isSessionActiveRef) =>
        /\ op' \in {"onmessage:ignored", "onmessage:ignoredInterrupted"}
        /\ UNCHANGED <<timeline, nextStartTimeRef, isAITalking, messages>>
        /\ UNCHANGED hookVars]_vars

(* C13 witness: a message carrying an interruption and a transcription      *)
(* arrived with the flag false while a segment was queued and the assistant *)
(* was marked talking, and was ignored.                                     *)
C13_Witness ==
  /\ op = "onmessage:ignoredInterrupted" /\ ~isSessionActiveRef
  /\ nextStartTimeRef > 0 /\ isAITalking /\ Segs(timeline) # {}
  /\ Len(messages) < MaxLog

Appended == SubSeq(messages', Len(messages) + 1, Len(messages'))
Fields(m) ==
  (IF m.modelText # "" THEN {[role |-> "model", text |-> m.modelText]} ELSE {})
    \cup (IF m.userText # "" THEN {[role |-> "user", text |-> m.userText]} ELSE {})

(* C14: the message log is append-only and in arrival order: no step        *)
(* removes or reorders an existing message, and a message processed on an   *)
(* active session appends, at the end of the log, exactly one Message for   *)
(* each transcription it carries, with that role and text, whatever the     *)
(* log already holds.                                                       *)
C14_LogAppendOnly ==
  /\ [][/\ Len(messages') >= Len(messages)
        /\ SubSeq(messages', 1, Len(messages)) = messages]_vars
  /\ [][(op' \in OnMessageOps /\ isSessionActiveRef) =>
          /\ Len(Appended) = Cardinality(Fields(msgIn'))
          /\ \A e \in Fields(msgIn') : \E k \in 1..Len(Appended) : Appended[k] = e]_vars

(* C14 witness: after a reconnection the same transcription fragment        *)
(* arrived again and was appended as a second, identical message.           *)
C14_Witness ==
  /\ op = "onmessage" /\ nextId = LogConnects /\ sessionRef = LogConnects
  /\ Len(messages) = 2 /\ messages[1] = messages[2]
  /\ msgIn.modelText = messages[2].text /\ messages[2].role = "model"

(* C16: a transmission failure on an active session, thrown by the audio   *)
(* send path or by sendText, is fatal for that session: the step leaves     *)
(* activeFlag false and the capture callback detached, and nothing is sent  *)
(* on that session afterwards.                                              *)
C16_SendFailureFatal ==
  [][op' \in {"frame:sendThrew", "text:threw"} =>
        /\ ~isSessionActiveRef'
        /\ (workletNodeRef # 0 => ~node'[workletNodeRef].handler)]_vars

TextOps == {"text:sent", "text:threw", "text:ignored"}
UserMessage(t) == [role |-> "user", text |-> t]
TextDelivered ==
  /\ sessionRef # 0
  /\ \E t \in {"a"} :
       /\ textSent' = [textSent EXCEPT ![sessionRef] = Append(@, t)]
       /\ messages' = Append(messages, UserMessage(t))
  /\ UNCHANGED <<isSessionActiveRef, timeline, nextStartTimeRef, isAITalking,
                 isUserTalking, audioSent>>

(* C19, as stated: sendText called while the controller is Open and         *)
(* activeFlag is true sends exactly one text payload and appends exactly    *)
(* one user Message with that text at the end of the log, leaving           *)
(* activeFlag, the timeline and the talk flags unchanged; called in any     *)
(* other state it sends nothing and leaves the log unchanged.               *)
C19_SendTextWhenOpen ==
  [][op' \in TextOps =>
        IF Open /\ isSessionActiveRef
        THEN TextDelivered
        ELSE UNCHANGED <<messages, textSent>>]_vars

(* C19, amended: sendText called while the controller is Open, activeFlag   *)
(* is true and the session handle is stored makes one send attempt; when    *)
(* the send does not throw, exactly one text payload has been sent on the   *)
(* stored session and exactly one user Message with that text is appended   *)
(* at the end of the log, with activeFlag, the timeline and the talk flags  *)
(* unchanged; when the send throws, or in any other state, nothing is sent  *)
(* and the log is unchanged.                                                *)
C19_SendTextWhenHandleStored ==
  /\ [][op' \in TextOps =>
          IF Open /\ isSessionActiveRef /\ sessionRef # 0
          THEN op' \in {"text:sent", "text:threw"}
          ELSE op' = "text:ignored"]_vars
  /\ [][op' = "text:sent" => TextDelivered]_vars
  /\ [][op' \in {"text:threw", "text:ignored"} => UNCHANGED <<messages, textSent>>]_vars

(* C19 witness: a text was sent while the assistant was talking with a      *)
(* segment queued and a transcript already in the log, and was appended     *)
(* after it.                                                                *)
C19_Witness ==
  /\ op = "text:sent" /\ Open /\ isSessionActiveRef /\ sessionRef # 0
  /\ Len(messages) = 2 /\ messages[1].role = "model" /\ messages[2] = UserMessage("a")
  /\ textSent[sessionRef] = <<"a">>
  /\ isAITalking /\ nextStartTimeRef > 0

----------------------------------------------------------------------------
(* Properties of the PCM conversion, checked under SpecPcm.                 *)

(* C15: the PCM conversion clamps each sample to [-1, 1] and scales it to   *)
(* a 16-bit signed integer: 1.0 gives 32767, -1.0 gives -32767 (or          *)
(* -32768), 0.0 gives 0; a sample outside [-1, 1] gives what the nearest    *)
(* boundary gives; a sample inside is scaled by 32767 and truncated; every  *)
(* result lies in -32768..32767.                                            *)
C15_PcmClampsAndScales ==
  op \in Processed =>
    /\ Len(pcmOut) = Len(frameIn)
    /\ \A k \in 1..Len(frameIn) :
         /\ pcmOut[k] \in -32768..32767
         /\ frameIn[k] = 1000 => pcmOut[k] = 32767
         /\ frameIn[k] = -1000 => pcmOut[k] \in {-32767, -32768}
         /\ frameIn[k] = 0 => pcmOut[k] = 0
         /\ frameIn[k] > 1000 => pcmOut[k] = 32767
         /\ frameIn[k] < -1000 => pcmOut[k] \in {-32767, -32768}
         /\ (frameIn[k] >= -1000 /\ frameIn[k] <= 1000) =>
               /\ pcmOut[k] * 1000 - frameIn[k] * 32767 \in -999..999
               /\ (frameIn[k] > 0 => pcmOut[k] > 0) /\ (frameIn[k] < 0 => pcmOut[k] < 0)
    /\ \A j, k \in 1..Len(frameIn) :
         \/ (frameIn[j] >= 1000 /\ frameIn[k] >= 1000)
         \/ (frameIn[j] <= -1000 /\ frameIn[k] <= -1000)
         => pcmOut[j] = pcmOut[k]

(* C15 witness: a frame with one sample above 1.0 and one below -1.0 was    *)
(* converted and sent.                                                      *)
C15_Witness ==
  /\ op = "frame:sent" /\ Len(frameIn) = 2
  /\ frameIn[1] > 1000 /\ frameIn[2] < -1000
  /\ Len(pcmOut) = 2

====
